---- MODULE Spec2Model ----
(***************************************************************************)
(* A model of the universities example service: the external client       *)
(* (node/clients/universities.ts), the REST middleware getUniversities in  *)
(* its two versions (README.md: without and with the app-settings read)    *)
(* and the GraphQL resolver getUniversitiesQuery.                          *)
(*                                                                         *)
(* A request is a JavaScript async function: it runs synchronously up to   *)
(* an await, where it has a call outstanding, and is resumed when that     *)
(* call resolves or rejects.  One action models one such synchronous run.  *)
(* The upstream API, the settings API and the downstream middleware are    *)
(* the environment: their answers are drawn from small sets.               *)
(***************************************************************************)
EXTENDS Integers, Sequences, FiniteSets, TLC

VARIABLES req, calls, env

vars == <<req, calls, env>>

----------------------------------------------------------------------------
(* Bounds *)

\* Longest array the upstream API returns.
MaxLen == 2

\* Number of requests handled concurrently (specification SpecConc).
NumRequests == 2

Requests == 1..NumRequests

\* The one request of the sequential specification Spec.
Single == {1}

----------------------------------------------------------------------------
(* JavaScript values *)

\* A property value of a university record: a string, null or undefined.
JsString(s) == [t |-> "string", s |-> s]
JsNull == [t |-> "null", s |-> ""]
JsUndefined == [t |-> "undefined", s |-> ""]

\* A value that ctx.body, IOResponse.data or the resolver's result holds:
\* an array of objects, a string, or nothing assigned yet.
Arr(a) == [tag |-> "array", arr |-> a, str |-> ""]
Str(s) == [tag |-> "string", arr |-> <<>>, str |-> s]
Unset == [tag |-> "unset", arr |-> <<>>, str |-> ""]

\* An object is a function from the keys it has to their values.
\* obj[key]: undefined when the key is absent.
GetProp(obj, key) == IF key \in DOMAIN obj THEN obj[key] ELSE JsUndefined

\* obj[key] = v: the key is created when absent, overwritten when present.
SetProp(obj, key, v) ==
  [k \in (DOMAIN obj) \cup {key} |-> IF k = key THEN v ELSE obj[k]]

\* delete obj[key]
DeleteProp(obj, key) == [k \in (DOMAIN obj) \ {key} |-> obj[k]]

----------------------------------------------------------------------------
(* The environment's answers *)

Names == {"U1", "U2"}

\* What the upstream sends under "state-province": a string, null, or no key.
Provinces == {JsString("Tbilisi"), JsNull}

\* The records of the upstream API: name always, "state-province" and
\* "state_province" each present or not.
UpstreamRecords ==
  { [k \in {"name"} \cup hy \cup us |->
        IF k = "name" THEN JsString(n)
        ELSE IF k = "state-province" THEN p
        ELSE JsString("Old")] :
      n \in Names, p \in Provinces,
      hy \in SUBSET {"state-province"}, us \in SUBSET {"state_province"} }

RECURSIVE SeqsUpTo(_, _)
SeqsUpTo(S, n) ==
  IF n = 0 THEN {<<>>}
  ELSE LET shorter == SeqsUpTo(S, n - 1)
       IN shorter \cup { Append(s, x) : s \in { t \in shorter : Len(t) = n - 1 }, x \in S }

\* Response bodies: JSON arrays of records, or a body that is no array.
Bodies == { Arr(a) : a \in SeqsUpTo(UpstreamRecords, MaxLen) } \cup {Str("Not Found")}

Statuses == {200, 204, 404}

Responses(S, B) == [status : S, data : B]

\* The answers the concurrent specification draws from: a success with one
\* record and a failure with a body that is no array.
SmallResponses ==
  { [status |-> 200,
     data |-> Arr(<<[k \in {"name", "state-province"} |->
                      IF k = "name" THEN JsString("U1") ELSE JsString("Tbilisi")]>>)],
    [status |-> 404, data |-> Str("Not Found")] }

\* Route parameter / query argument.
Countries == {"georgia", "peru"}

\* The app settings { universities, country } the platform holds.
Settings == [universities : {"http://universities.hipolabs.com/"},
             country : {"peru", "chile"}]

NoSettings == [universities |-> "", country |-> ""]

NoResponse == [status |-> 0, data |-> Unset]

\* process.env.VTEX_APP_ID: unset (the empty string here) or set.
EnvValues == {"", "vendor.app@0.x"}

----------------------------------------------------------------------------
(* The client *)

\* Universities.getUniversitiesByCountry: GET search?country=<country>
getUniversitiesByCountry(country) ==
  [op |-> "getUniversitiesByCountry", arg |-> "search?country=" \o country]

\* ctx.clients.apps.getAppSettings(APP_ID)
getAppSettings(appId) == [op |-> "getAppSettings", arg |-> appId]

\* const APP_ID = process.env.VTEX_APP_ID ? process.env.VTEX_APP_ID : ''
APP_ID == IF env # "" THEN env ELSE ""

----------------------------------------------------------------------------
(* State *)

Idle == [kind |-> "none", pc |-> "idle", country |-> "",
         settings |-> NoSettings, response |-> NoResponse,
         body |-> Unset, result |-> Unset, nextCalls |-> 0,
         error |-> "none", lookup |-> "", log |-> <<>>]

Init ==
  /\ req = [r \in Requests |-> Idle]
  /\ calls = [r \in Requests |-> {}]
  /\ env \in EnvValues

TypeOK ==
  /\ env \in EnvValues
  /\ \A r \in Requests :
       /\ req[r].kind \in {"none", "rest", "restSettings", "graphql"}
       /\ req[r].pc \in {"idle", "awaitSettings", "awaitUniversities",
                         "awaitNext", "done", "failed"}
       /\ req[r].nextCalls \in 0..2
       /\ calls[r] \subseteq [op : {"getUniversitiesByCountry", "getAppSettings"},
                              arg : STRING]

----------------------------------------------------------------------------
(* The pure parts of the handlers *)

\* Mutant: every 2xx status counts as success.
RestBodyAny2xx(resp) ==
  IF resp.status >= 200 /\ resp.status < 300
  THEN resp.data ELSE Str("No universities found")

\* if (universitiesResponse.status === 200) ctx.body = universitiesResponse.data
\* else ctx.body = 'No universities found'
RestBody(resp) ==
  IF resp.status = 200 THEN resp.data ELSE Str("No universities found")

\* Mutant: the delete statement is missing.
TransformUniversityNoDelete(university) ==
  SetProp(university, "state_province", GetProp(university, "state-province"))

\* Mutant: state_province is assigned only when the record has none yet.
TransformUniversityKeepExisting(university) ==
  DeleteProp(
    IF "state_province" \in DOMAIN university
    THEN university
    ELSE SetProp(university, "state_province", GetProp(university, "state-province")),
    "state-province")

\* Mutant: the rename runs only when the record has "state-province".
TransformUniversityIfPresent(university) ==
  IF "state-province" \in DOMAIN university
  THEN DeleteProp(
         SetProp(university, "state_province", GetProp(university, "state-province")),
         "state-province")
  ELSE university

\* The callback of universities.map: copy "state-province" to state_province,
\* delete "state-province", return the same object.
TransformUniversity(university) ==
  DeleteProp(
    SetProp(university, "state_province", GetProp(university, "state-province")),
    "state-province")

\* Mutant: records without "state-province" are filtered out before the map.
MapUniversitiesFilter(universities) ==
  LET kept == SelectSeq(universities, LAMBDA u : "state-province" \in DOMAIN u)
  IN [i \in 1..Len(kept) |-> TransformUniversity(kept[i])]

\* universities.map(callback): a new array, one element per element, in order.
MapUniversities(universities) ==
  [i \in 1..Len(universities) |-> TransformUniversity(universities[i])]

\* An exception no handler catches: the async function's promise rejects and
\* nothing after the throwing statement runs.
Throw(q, e) == [q EXCEPT !.pc = "failed", !.error = e]

\* Mutant: the else branch writes the body and returns without calling next().
WriteBodyThenNextOnlyOn200(q, resp) ==
  IF resp.status = 200
  THEN [q EXCEPT !.response = resp,
                 !.body = resp.data,
                 !.nextCalls = @ + 1,
                 !.log = @ \o <<"body", "next">>,
                 !.pc = "awaitNext"]
  ELSE [q EXCEPT !.response = resp,
                 !.body = Str("No universities found"),
                 !.log = @ \o <<"body", "return">>,
                 !.pc = "done"]

\* README.md 169-175: the body is written in either branch, then next() is
\* called and awaited.
WriteBodyThenNext(q, resp) ==
  [q EXCEPT !.response = resp,
            !.body = RestBody(resp),
            !.nextCalls = @ + 1,
            !.log = @ \o <<"body", "next">>,
            !.pc = "awaitNext"]

\* The call a handler awaits is the one it has outstanding.
Awaiting(r, op) == \E c \in calls[r] : c.op = op

Settle(r, op) == [calls EXCEPT ![r] = { c \in @ : c.op # op }]

----------------------------------------------------------------------------
(* REST middleware getUniversities, first version (no settings) *)

\* Runs from the entry to the await of getUniversitiesByCountry(country).
getUniversities(r, country) ==
  /\ req[r].pc = "idle"
  /\ req' = [req EXCEPT ![r] =
               [@ EXCEPT !.kind = "rest", !.country = country,
                         !.pc = "awaitUniversities",
                         !.lookup = getUniversitiesByCountry(country).arg,
                         !.log = Append(@, "getUniversitiesByCountry")]]
  /\ calls' = [calls EXCEPT ![r] = @ \cup {getUniversitiesByCountry(country)}]
  /\ UNCHANGED env

\* The client call resolved with one of answers: the rest of the handler up to
\* await next().
getUniversitiesResumed(r, answers) ==
  /\ req[r].kind = "rest"
  /\ req[r].pc = "awaitUniversities"
  /\ Awaiting(r, "getUniversitiesByCountry")
  /\ \E resp \in answers :
       req' = [req EXCEPT ![r] = WriteBodyThenNext(@, resp)]
  /\ calls' = Settle(r, "getUniversitiesByCountry")
  /\ UNCHANGED env

----------------------------------------------------------------------------
(* REST middleware getUniversities, second version (reads the app settings) *)

\* Mutant: both calls are started before either is awaited.
getUniversitiesWithSettingsNoAwait(r, country) ==
  /\ req[r].pc = "idle"
  /\ req' = [req EXCEPT ![r] =
               [@ EXCEPT !.kind = "restSettings", !.country = country,
                         !.pc = "awaitSettings",
                         !.lookup = getUniversitiesByCountry(country).arg,
                         !.log = @ \o <<"getAppSettings", "getUniversitiesByCountry">>]]
  /\ calls' = [calls EXCEPT ![r] =
                 @ \cup {getAppSettings(APP_ID), getUniversitiesByCountry(country)}]
  /\ UNCHANGED env

\* Runs from the entry to the await of getAppSettings(APP_ID).
getUniversitiesWithSettings(r, country) ==
  /\ req[r].pc = "idle"
  /\ req' = [req EXCEPT ![r] =
               [@ EXCEPT !.kind = "restSettings", !.country = country,
                         !.pc = "awaitSettings",
                         !.log = Append(@, "getAppSettings")]]
  /\ calls' = [calls EXCEPT ![r] = @ \cup {getAppSettings(APP_ID)}]
  /\ UNCHANGED env

\* Mutant: the lookup is made with countrySchema instead of the route parameter.
getUniversitiesSettingsReadUsesSetting(r, s) ==
  /\ req[r].kind = "restSettings"
  /\ req[r].pc = "awaitSettings"
  /\ Awaiting(r, "getAppSettings")
  /\ req' = [req EXCEPT ![r] =
               [@ EXCEPT !.settings = s,
                         !.pc = "awaitUniversities",
                         !.lookup = getUniversitiesByCountry(s.country).arg,
                         !.log = Append(@, "getUniversitiesByCountry")]]
  /\ calls' = [Settle(r, "getAppSettings") EXCEPT ![r] =
                 @ \cup {getUniversitiesByCountry(s.country)}]
  /\ UNCHANGED env

\* getAppSettings resolved with s: universitiesSchema and countrySchema are
\* bound and logged, then getUniversitiesByCountry(country) is awaited.
getUniversitiesSettingsRead(r, s) ==
  /\ req[r].kind = "restSettings"
  /\ req[r].pc = "awaitSettings"
  /\ Awaiting(r, "getAppSettings")
  /\ req' = [req EXCEPT ![r] =
               [@ EXCEPT !.settings = s,
                         !.pc = "awaitUniversities",
                         !.lookup = getUniversitiesByCountry(req[r].country).arg,
                         !.log = Append(@, "getUniversitiesByCountry")]]
  /\ calls' = [Settle(r, "getAppSettings") EXCEPT ![r] =
                 @ \cup {getUniversitiesByCountry(req[r].country)}]
  /\ UNCHANGED env

\* getAppSettings rejected: nothing catches it.
getUniversitiesSettingsRejected(r) ==
  /\ req[r].kind = "restSettings"
  /\ req[r].pc = "awaitSettings"
  /\ Awaiting(r, "getAppSettings")
  /\ req' = [req EXCEPT ![r] = Throw(@, "getAppSettings rejected")]
  /\ calls' = Settle(r, "getAppSettings")
  /\ UNCHANGED env

\* The client call resolved with one of answers: the rest of the handler up to
\* await next().
getUniversitiesWithSettingsResumed(r, answers) ==
  /\ req[r].kind = "restSettings"
  /\ req[r].pc = "awaitUniversities"
  /\ Awaiting(r, "getUniversitiesByCountry")
  /\ \E resp \in answers :
       req' = [req EXCEPT ![r] = WriteBodyThenNext(@, resp)]
  /\ calls' = Settle(r, "getUniversitiesByCountry")
  /\ UNCHANGED env

----------------------------------------------------------------------------
(* Both versions: the client call rejects; next() settles *)

\* Mutant: the rejection is caught and answered like a non-200 status.
getUniversitiesRejectedCaught(r) ==
  /\ req[r].kind \in {"rest", "restSettings"}
  /\ req[r].pc = "awaitUniversities"
  /\ Awaiting(r, "getUniversitiesByCountry")
  /\ req' = [req EXCEPT ![r] =
               [@ EXCEPT !.error = "getUniversitiesByCountry rejected",
                         !.body = Str("No universities found"),
                         !.nextCalls = @ + 1,
                         !.log = @ \o <<"body", "next">>,
                         !.pc = "awaitNext"]]
  /\ calls' = Settle(r, "getUniversitiesByCountry")
  /\ UNCHANGED env

\* await getUniversitiesByCountry(country) throws: no try/catch in the handler.
getUniversitiesRejected(r) ==
  /\ req[r].kind \in {"rest", "restSettings"}
  /\ req[r].pc = "awaitUniversities"
  /\ Awaiting(r, "getUniversitiesByCountry")
  /\ req' = [req EXCEPT ![r] = Throw(@, "getUniversitiesByCountry rejected")]
  /\ calls' = Settle(r, "getUniversitiesByCountry")
  /\ UNCHANGED env

\* await next() resolved: the handler returns.
getUniversitiesNextResolved(r) ==
  /\ req[r].pc = "awaitNext"
  /\ req' = [req EXCEPT ![r] = [@ EXCEPT !.pc = "done", !.log = Append(@, "return")]]
  /\ UNCHANGED <<calls, env>>

\* await next() rejected: the handler rejects, the body stays as written.
getUniversitiesNextRejected(r) ==
  /\ req[r].pc = "awaitNext"
  /\ req' = [req EXCEPT ![r] = Throw(@, "next rejected")]
  /\ UNCHANGED <<calls, env>>

----------------------------------------------------------------------------
(* GraphQL resolver getUniversitiesQuery *)

\* Runs from the entry to the await of getUniversitiesByCountry(country).
getUniversitiesQuery(r, country) ==
  /\ req[r].pc = "idle"
  /\ req' = [req EXCEPT ![r] =
               [@ EXCEPT !.kind = "graphql", !.country = country,
                         !.pc = "awaitUniversities",
                         !.lookup = getUniversitiesByCountry(country).arg,
                         !.log = Append(@, "getUniversitiesByCountry")]]
  /\ calls' = [calls EXCEPT ![r] = @ \cup {getUniversitiesByCountry(country)}]
  /\ UNCHANGED env

\* Mutant: a status other than 200 is turned into an error.
getUniversitiesQueryResumedChecksStatus(r, answers) ==
  /\ req[r].kind = "graphql"
  /\ req[r].pc = "awaitUniversities"
  /\ Awaiting(r, "getUniversitiesByCountry")
  /\ \E resp \in answers :
       req' = [req EXCEPT ![r] =
                    IF resp.status = 200 /\ resp.data.tag = "array"
                    THEN [@ EXCEPT !.response = resp,
                                   !.result = Arr(MapUniversities(resp.data.arr)),
                                   !.log = Append(@, "return"),
                                   !.pc = "done"]
                    ELSE Throw([@ EXCEPT !.response = resp], "Error")]
  /\ calls' = Settle(r, "getUniversitiesByCountry")
  /\ UNCHANGED env

\* The client call resolved with resp, one of answers: only resp.data is read.  A data that
\* is no array has no map method: calling it throws a TypeError.
getUniversitiesQueryResumed(r, answers) ==
  /\ req[r].kind = "graphql"
  /\ req[r].pc = "awaitUniversities"
  /\ Awaiting(r, "getUniversitiesByCountry")
  /\ \E resp \in answers :
       req' = [req EXCEPT ![r] =
                    IF resp.data.tag = "array"
                    THEN [@ EXCEPT !.response = resp,
                                   !.result = Arr(MapUniversities(resp.data.arr)),
                                   !.log = Append(@, "return"),
                                   !.pc = "done"]
                    ELSE Throw([@ EXCEPT !.response = resp], "TypeError")]
  /\ calls' = Settle(r, "getUniversitiesByCountry")
  /\ UNCHANGED env

\* await getUniversitiesByCountry(country) throws: no try/catch in the resolver.
getUniversitiesQueryRejected(r) ==
  /\ req[r].kind = "graphql"
  /\ req[r].pc = "awaitUniversities"
  /\ Awaiting(r, "getUniversitiesByCountry")
  /\ req' = [req EXCEPT ![r] = Throw(@, "getUniversitiesByCountry rejected")]
  /\ calls' = Settle(r, "getUniversitiesByCountry")
  /\ UNCHANGED env

----------------------------------------------------------------------------
(* Specifications *)

\* One request, every upstream body up to MaxLen records.
Next ==
  \E r \in Single :
    \/ \E c \in Countries : getUniversities(r, c)
    \/ \E c \in Countries : getUniversitiesWithSettings(r, c)
    \/ \E c \in Countries : getUniversitiesQuery(r, c)
    \/ \E s \in Settings : getUniversitiesSettingsRead(r, s)
    \/ getUniversitiesSettingsRejected(r)
    \/ getUniversitiesResumed(r, Responses(Statuses, Bodies))
    \/ getUniversitiesWithSettingsResumed(r, Responses(Statuses, Bodies))
    \/ getUniversitiesQueryResumed(r, Responses(Statuses, Bodies))
    \/ getUniversitiesRejected(r)
    \/ getUniversitiesQueryRejected(r)
    \/ getUniversitiesNextResolved(r)
    \/ getUniversitiesNextRejected(r)

Spec == Init /\ [][Next]_vars

\* NumRequests requests interleaved, two upstream answers.
NextConc ==
  \E r \in Requests :
    \/ \E c \in Countries : getUniversities(r, c)
    \/ \E c \in Countries : getUniversitiesWithSettings(r, c)
    \/ \E c \in Countries : getUniversitiesQuery(r, c)
    \/ \E s \in Settings : getUniversitiesSettingsRead(r, s)
    \/ getUniversitiesSettingsRejected(r)
    \/ getUniversitiesResumed(r, SmallResponses)
    \/ getUniversitiesWithSettingsResumed(r, SmallResponses)
    \/ getUniversitiesQueryResumed(r, SmallResponses)
    \/ getUniversitiesRejected(r)
    \/ getUniversitiesQueryRejected(r)
    \/ getUniversitiesNextResolved(r)
    \/ getUniversitiesNextRejected(r)

SpecConc == Init /\ [][NextConc]_vars

----------------------------------------------------------------------------
(* Properties *)

\* The request has got the upstream response of its lookup.
Received(r) == req[r].response # NoResponse

IsRest(r) == req[r].kind \in {"rest", "restSettings"}

\* The resolver has returned an array for an upstream array.
Resolved(r) ==
  /\ req[r].kind = "graphql"
  /\ req[r].pc = "done"
  /\ req[r].response.data.tag = "array"

Upstream(r) == req[r].response.data.arr

Returned(r) == req[r].result.arr

\* Position of the first occurrence of e in log (0 when absent).
RECURSIVE IndexOf(_, _, _)
IndexOf(log, e, i) ==
  IF i > Len(log) THEN 0
  ELSE IF log[i] = e THEN i
  ELSE IndexOf(log, e, i + 1)

Count(log, e) == Cardinality({ i \in 1..Len(log) : log[i] = e })

\* C1: once the REST handler (either version) has the upstream response, ctx.body
\* is the upstream body unchanged when the status is 200 and the string
\* "No universities found" for every other status.
C1_RestBody ==
  \A r \in Requests :
    (IsRest(r) /\ Received(r)) =>
      /\ (req[r].response.status = 200 => req[r].body = req[r].response.data)
      /\ (req[r].response.status # 200 => req[r].body = Str("No universities found"))

\* A 2xx status other than 200, with a non-empty array body, answered by the literal.
C1_Witness ==
  \E r \in Requests :
    /\ IsRest(r) /\ Received(r)
    /\ req[r].response.status = 204
    /\ req[r].response.data.tag = "array"
    /\ Len(req[r].response.data.arr) > 0
    /\ req[r].body = Str("No universities found")

\* C2: no record of the array the resolver returns has the key "state-province".
C2_NoHyphenKey ==
  \A r \in Requests :
    Resolved(r) =>
      \A i \in 1..Len(Returned(r)) : "state-province" \notin DOMAIN Returned(r)[i]

\* An upstream array with one record that had the key and one that had not.
C2_Witness ==
  \E r \in Requests :
    /\ Resolved(r)
    /\ Len(Upstream(r)) = 2
    /\ "state-province" \in DOMAIN Upstream(r)[1]
    /\ "state-province" \notin DOMAIN Upstream(r)[2]
    /\ Len(Returned(r)) = 2

\* C3: a record that came with "state-province": v is returned with
\* state_province: v, whatever state_province it carried before.
C3_Renamed ==
  \A r \in Requests :
    Resolved(r) =>
      /\ Len(Returned(r)) = Len(Upstream(r))
      /\ \A i \in 1..Len(Upstream(r)) :
           "state-province" \in DOMAIN Upstream(r)[i] =>
             /\ "state_province" \in DOMAIN Returned(r)[i]
             /\ Returned(r)[i]["state_province"] = Upstream(r)[i]["state-province"]

\* An upstream record with "state-province": "Tbilisi" and state_province: "Old".
C3_Witness ==
  \E r \in Requests :
    /\ Resolved(r)
    /\ \E i \in 1..Len(Upstream(r)) :
         /\ DOMAIN Upstream(r)[i] = {"name", "state-province", "state_province"}
         /\ Upstream(r)[i]["state-province"] = JsString("Tbilisi")
         /\ Upstream(r)[i]["state_province"] = JsString("Old")
         /\ Returned(r)[i]["state_province"] = JsString("Tbilisi")

\* C4: in the REST handler next() is called exactly once when the upstream
\* response has arrived, in the 200 branch and in the other one, after the body
\* was written; it is not called before.
C4_NextOnceAfterBody ==
  \A r \in Requests :
    IsRest(r) =>
      /\ req[r].nextCalls = Count(req[r].log, "next")
      /\ (~Received(r) => req[r].nextCalls = 0)
      /\ (Received(r) =>
            /\ req[r].nextCalls = 1
            /\ req[r].body # Unset
            /\ Count(req[r].log, "body") = 1
            /\ IndexOf(req[r].log, "body", 1) < IndexOf(req[r].log, "next", 1))
      /\ (req[r].pc = "done" => req[r].nextCalls = 1)

\* A handler that took the non-200 branch and returned after next().
C4_Witness ==
  \E r \in Requests :
    /\ IsRest(r)
    /\ req[r].pc = "done"
    /\ req[r].response.status = 404
    /\ req[r].nextCalls = 1
    /\ req[r].body = Str("No universities found")

\* C5: a record without "state-province" is returned with state_province present
\* and undefined and without "state-province"; deleting the absent key changes
\* nothing; the same holds when a returned record is transformed again.
C5_AbsentGivesUndefined ==
  \A r \in Requests :
    Resolved(r) =>
      /\ Len(Returned(r)) = Len(Upstream(r))
      /\ \A i \in 1..Len(Upstream(r)) :
           "state-province" \notin DOMAIN Upstream(r)[i] =>
             LET assigned == SetProp(Upstream(r)[i], "state_province", JsUndefined)
                 again == TransformUniversity(Returned(r)[i])
             IN /\ "state_province" \in DOMAIN Returned(r)[i]
                /\ Returned(r)[i]["state_province"] = JsUndefined
                /\ "state-province" \notin DOMAIN Returned(r)[i]
                /\ Returned(r)[i] = assigned
                /\ "state_province" \in DOMAIN again
                /\ again["state_province"] = JsUndefined
                /\ "state-province" \notin DOMAIN again
      /\ \A i \in 1..Len(Returned(r)) :
           LET again == TransformUniversity(Returned(r)[i])
           IN /\ "state_province" \in DOMAIN again
              /\ again["state_province"] = JsUndefined
              /\ "state-province" \notin DOMAIN again

\* A record that came without "state-province" but with state_province: "Old".
C5_Witness ==
  \E r \in Requests :
    /\ Resolved(r)
    /\ \E i \in 1..Len(Upstream(r)) :
         /\ DOMAIN Upstream(r)[i] = {"name", "state_province"}
         /\ Upstream(r)[i]["state_province"] = JsString("Old")
         /\ Returned(r)[i]["state_province"] = JsUndefined

\* C6: the resolver does not look at the status: whenever the upstream body is
\* an array it returns the renamed array and raises no error, for a status of
\* 200 and for any other.
C6_StatusIgnored ==
  \A r \in Requests :
    (req[r].kind = "graphql" /\ Received(r) /\ req[r].response.data.tag = "array") =>
      /\ req[r].pc = "done"
      /\ req[r].error = "none"
      /\ req[r].result.tag = "array"
      /\ Len(Returned(r)) = Len(Upstream(r))
      /\ \A i \in 1..Len(Upstream(r)) :
           /\ "state-province" \notin DOMAIN Returned(r)[i]
           /\ "state_province" \in DOMAIN Returned(r)[i]
           /\ Returned(r)[i]["state_province"] = GetProp(Upstream(r)[i], "state-province")

\* A 404 response with a record in its body, renamed and returned.
C6_Witness ==
  \E r \in Requests :
    /\ Resolved(r)
    /\ req[r].response.status = 404
    /\ Len(Upstream(r)) > 0
    /\ "state-province" \in DOMAIN Upstream(r)[1]
    /\ Returned(r)[1]["state_province"] = JsString("Tbilisi")

\* C7: when getUniversitiesByCountry rejects, the handler or resolver fails with
\* that rejection: no body is written, next() is not called, nothing is returned.
C7_RejectionPropagates ==
  \A r \in Requests :
    req[r].error = "getUniversitiesByCountry rejected" =>
      /\ req[r].pc = "failed"
      /\ req[r].body = Unset
      /\ req[r].nextCalls = 0
      /\ req[r].result = Unset
      /\ Count(req[r].log, "next") = 0
      /\ calls[r] = {}

\* A REST handler (settings version) and a resolver that both failed this way.
C7_Witness ==
  \E r1, r2 \in Requests :
    /\ req[r1].kind = "restSettings"
    /\ req[r2].kind = "graphql"
    /\ req[r1].error = "getUniversitiesByCountry rejected"
    /\ req[r2].error = "getUniversitiesByCountry rejected"
    /\ req[r1].pc = "failed"
    /\ req[r2].pc = "failed"

\* C8: the resolver returns as many records as it got, in the same order, and
\* every key other than "state-province" and state_province keeps its value.
C8_OnlyRename ==
  \A r \in Requests :
    Resolved(r) =>
      /\ Len(Returned(r)) = Len(Upstream(r))
      /\ \A i \in 1..Len(Upstream(r)) :
           /\ DOMAIN Returned(r)[i] \ {"state-province", "state_province"}
                = DOMAIN Upstream(r)[i] \ {"state-province", "state_province"}
           /\ \A k \in DOMAIN Upstream(r)[i] \ {"state-province", "state_province"} :
                Returned(r)[i][k] = Upstream(r)[i][k]

\* Two records with different names, the second without "state-province".
C8_Witness ==
  \E r \in Requests :
    /\ Resolved(r)
    /\ Len(Upstream(r)) = 2
    /\ Upstream(r)[1]["name"] = JsString("U2")
    /\ Upstream(r)[2]["name"] = JsString("U1")
    /\ "state-province" \in DOMAIN Upstream(r)[1]
    /\ "state-province" \notin DOMAIN Upstream(r)[2]
    /\ Returned(r)[1]["name"] = JsString("U2")
    /\ Returned(r)[2]["name"] = JsString("U1")

\* C9: a request never has two external calls outstanding; the lookup of the
\* settings version is outstanding only once its settings call has returned.
C9_OneCallInFlight ==
  \A r \in Requests :
    /\ Cardinality(calls[r]) <= 1
    /\ (req[r].pc \in {"awaitSettings", "awaitUniversities"} <=> calls[r] # {})
    /\ (req[r].pc = "awaitSettings" => calls[r] = {getAppSettings(APP_ID)})
    /\ (req[r].pc = "awaitUniversities" =>
          calls[r] = {[op |-> "getUniversitiesByCountry", arg |-> req[r].lookup]})

\* Two requests with a call outstanding each, one of them past its settings read.
C9_Witness ==
  \E r1, r2 \in Requests :
    /\ r1 # r2
    /\ req[r1].kind = "restSettings"
    /\ req[r1].pc = "awaitUniversities"
    /\ req[r1].settings # NoSettings
    /\ Cardinality(calls[r1]) = 1
    /\ req[r2].pc = "awaitSettings"
    /\ Cardinality(calls[r2]) = 1

\* C10: two runs of the settings version with the same route parameter make the
\* same lookup, and with the same upstream response write the same body,
\* whatever settings each has read.
C10_SettingsNotApplied ==
  \A r1, r2 \in Requests :
    ( /\ req[r1].kind = "restSettings" /\ req[r2].kind = "restSettings"
      /\ req[r1].settings # NoSettings /\ req[r2].settings # NoSettings
      /\ req[r1].country = req[r2].country ) =>
        /\ req[r1].lookup = req[r2].lookup
        /\ (req[r1].pc = "awaitUniversities" /\ req[r2].pc = "awaitUniversities"
              => calls[r1] = calls[r2])
        /\ (Received(r1) /\ Received(r2) /\ req[r1].response = req[r2].response
              => req[r1].body = req[r2].body)

\* Two finished runs, same parameter and response, different country setting.
C10_Witness ==
  \E r1, r2 \in Requests :
    /\ req[r1].kind = "restSettings" /\ req[r2].kind = "restSettings"
    /\ req[r1].pc = "done" /\ req[r2].pc = "done"
    /\ req[r1].country = req[r2].country
    /\ req[r1].response = req[r2].response
    /\ req[r1].response.status = 200
    /\ req[r1].settings.country # req[r2].settings.country
    /\ req[r1].body = req[r2].body

====
